---- MODULE Spec2Model ----
(***************************************************************************)
(* A model of smartspread's Tab Accessor (SmartTab): the read pipeline    *)
(* with per-column type inference, the three data shapes, the content     *)
(* fingerprint, write_data with its no-op guard, filter and upsert, and   *)
(* the remote tab they act on.                                            *)
(*                                                                         *)
(* Cells are modelled as string tokens.  A number is written as its       *)
(* Python repr: the int 1 is "1", the float 1.0 is "1.0", 1.5 is "1.5".   *)
(* The three missing values of Python/pandas are three distinct tokens.   *)
(* pandas operations follow pandas 2.x.                                   *)
(***************************************************************************)
EXTENDS Integers, Sequences, FiniteSets, TLC

-----------------------------------------------------------------------------
(* Cell values *)

None_ == "<None>"
NaN == "<NaN>"
NA == "<NA>"

IntVals == {"0", "1", "2", "3"}
FloatIntVals == {"0.0", "1.0", "2.0", "3.0"}
FracVals == {"1.5"}

\* pd.isna(v) of a scalar
IsNull(c) == c \in {None_, NaN, NA}

IsNumeric(c) == c \in IntVals \cup FloatIntVals \cup FracVals

\* x % 1 == 0
IsIntegral(c) == c \in IntVals \cup FloatIntVals

ToInt(c) ==
  CASE c = "0.0" -> "0" [] c = "1.0" -> "1" [] c = "2.0" -> "2" [] c = "3.0" -> "3"
    [] OTHER -> c

ToFloat(c) ==
  CASE c = "0" -> "0.0" [] c = "1" -> "1.0" [] c = "2" -> "2.0" [] c = "3" -> "3.0"
    [] OTHER -> c

\* Python truthiness of a header cell: `not col`
Falsy(c) == c \in {"", "0", "0.0", None_}

\* Python == on two scalars as pandas applies it elementwise: a missing
\* value equals nothing, 1 == 1.0
ValEq(a, b) ==
  /\ ~IsNull(a)
  /\ ~IsNull(b)
  /\ IF IsNumeric(a) /\ IsNumeric(b) THEN ToFloat(a) = ToFloat(b) ELSE a = b

-----------------------------------------------------------------------------
(* Sequences *)

Range(s) == {s[i] : i \in 1..Len(s)}

HasDuplicates(s) == \E i, j \in 1..Len(s) : i < j /\ s[i] = s[j]

IndexOf(s, x) == CHOOSE i \in 1..Len(s) : s[i] = x /\ \A k \in 1..(i - 1) : s[k] # x

Column(rows, j) == [i \in 1..Len(rows) |-> rows[i][j]]

-----------------------------------------------------------------------------
(* The three data shapes.  One record type holds them all:                *)
(*   kind "df":   cols, dtypes and rows of a pandas DataFrame with a      *)
(*                RangeIndex;                                             *)
(*   kind "dict": a list of dicts that share the keys cols, in order;     *)
(*                an empty list carries no keys;                          *)
(*   kind "list": a list of lists, rows[1] being the header.              *)

Frame(cols, dtypes, rows) ==
  [kind |-> "df", cols |-> cols, dtypes |-> dtypes, rows |-> rows]

DictList(cols, rows) ==
  [kind |-> "dict", cols |-> IF rows = <<>> THEN <<>> ELSE cols,
   dtypes |-> <<>>, rows |-> rows]

ListOfLists(rows) ==
  [kind |-> "list", cols |-> <<>>, dtypes |-> <<>>, rows |-> rows]

\* pd.DataFrame()
EmptyFrame == Frame(<<>>, <<>>, <<>>)

\* df.values.tolist(): numpy's common dtype makes every int a float when
\* all columns are numpy numeric and one is float64; else cells are kept
ValuesToList(df) ==
  LET allNumpy == \A j \in 1..Len(df.dtypes) : df.dtypes[j] \in {"int64", "float64"}
      anyFloat == \E j \in 1..Len(df.dtypes) : df.dtypes[j] = "float64"
  IN IF allNumpy /\ anyFloat
       THEN [i \in 1..Len(df.rows) |->
               [j \in 1..Len(df.cols) |-> ToFloat(df.rows[i][j])]]
       ELSE df.rows

\* A conversion that passes the missing values of pandas on
SanitizeNothing(c) == c

\* None if pd.isna(v) else v
Sanitize(c) == IF IsNull(c) THEN None_ ELSE c

SanitizeRows(rows) ==
  [i \in 1..Len(rows) |-> [j \in 1..Len(rows[i]) |-> Sanitize(rows[i][j])]]

-----------------------------------------------------------------------------
(* _read_values *)

\* How the tab shows its numbers
NumberFormats == {"plain", "currency"}

\* The text a cell shows: a number under the currency format carries
\* the sign, everything else shows as it is
Formatted(c, numfmt) ==
  IF IsNumeric(c) /\ numfmt = "currency" THEN "$" \o c ELSE c

\* The width of the widest row
Widest(grid) ==
  IF grid = <<>> THEN 0
  ELSE CHOOSE n \in {Len(grid[i]) : i \in 1..Len(grid)} :
         \A i \in 1..Len(grid) : Len(grid[i]) <= n

\* get_all_values(): the shown text of every cell, the rows filled up to
\* one width, and one empty row for an empty tab
AllValues(r) ==
  IF r.grid = <<>> THEN << <<>> >>
  ELSE [i \in 1..Len(r.grid) |->
          [j \in 1..Widest(r.grid) |->
             IF j <= Len(r.grid[i]) THEN Formatted(r.grid[i][j], r.numfmt)
             ELSE ""]]

\* _read_values: get_all_values() with keep_number_formatting, else the
\* unformatted values of values_batch_get
ReadValues(r, keep_number_formatting) ==
  IF keep_number_formatting THEN AllValues(r) ELSE r.grid

-----------------------------------------------------------------------------
(* read_data *)

ColumnPlaceholder(i) == "Column_" \o ToString(i)

PlaceholderNames(headers) ==
  [i \in 1..Len(headers) |->
     IF Falsy(headers[i]) THEN ColumnPlaceholder(i) ELSE headers[i]]

PadRow(row, n) == [j \in 1..n |-> IF j <= Len(row) THEN row[j] ELSE ""]

\* One column of read_data's loop: "" becomes None, then Int64, float64 or
\* text.  pd.to_numeric(errors='coerce') turns every non-numeric value
\* into NaN, and the two conversions only ask whether some value is left.
InferColumn(col) ==
  LET c1 == [i \in 1..Len(col) |-> IF col[i] = "" THEN None_ ELSE col[i]]
      anyNumeric == \E i \in 1..Len(c1) : IsNumeric(c1[i])
      allIntegral == \A i \in 1..Len(c1) : IsNumeric(c1[i]) => IsIntegral(c1[i])
  IN IF \A i \in 1..Len(c1) : IsNull(c1[i])
       THEN [dtype |-> "object", vals |-> c1]
     ELSE IF anyNumeric /\ allIntegral
       THEN [dtype |-> "Int64",
             vals |-> [i \in 1..Len(c1) |->
                         IF IsNumeric(c1[i]) THEN ToInt(c1[i]) ELSE NA]]
     ELSE IF anyNumeric
       THEN [dtype |-> "float64",
             vals |-> [i \in 1..Len(c1) |->
                         IF IsNumeric(c1[i]) THEN ToFloat(c1[i]) ELSE NaN]]
     ELSE [dtype |-> "object",
           vals |-> [i \in 1..Len(c1) |->
                       IF IsNull(c1[i]) \/ c1[i] = "None" THEN None_ ELSE c1[i]]]

\* The typed table read_data builds before it converts to the shape
ReadFrame(values) ==
  LET headers == values[1]
      n == Len(headers)
      data_rows == [i \in 1..(Len(values) - 1) |-> PadRow(values[i + 1], n)]
      inferred == [j \in 1..n |-> InferColumn(Column(data_rows, j))]
  IN Frame(PlaceholderNames(headers),
           [j \in 1..n |-> inferred[j].dtype],
           [i \in 1..Len(data_rows) |-> [j \in 1..n |-> inferred[j].vals[i]]])

\* The conversion at the end of read_data
ReadShape(df, fmt) ==
  CASE fmt = "dict" -> DictList(df.cols, SanitizeRows(df.rows))
    [] fmt = "list" -> ListOfLists(<<df.cols>> \o SanitizeRows(ValuesToList(df)))
    [] OTHER -> df

\* read_data on the grid the remote returned: the data, or the ValueError
\* of an empty or headerless grid.  A repeated column name makes df[col]
\* a DataFrame, whose isna().all() has no truth value: a ValueError too.
ReadData(values, fmt) ==
  IF values = <<>> \/ values[1] = <<>>
    THEN [err |-> "ValueError", data |-> EmptyFrame]
  ELSE IF HasDuplicates(PlaceholderNames(values[1]))
    THEN [err |-> "ValueError", data |-> EmptyFrame]
  ELSE [err |-> "none", data |-> ReadShape(ReadFrame(values), fmt)]

-----------------------------------------------------------------------------
(* _calculate_data_hash.  md5 is taken to be injective on the bytes it is *)
(* given, so the fingerprint is modelled by those bytes' content.         *)

\* hash_pandas_object hashes an object column's missing values alike
HashCell(dtype, c) == IF dtype = "object" /\ IsNull(c) THEN "<null>" ELSE c

\* The value of _stored_data_hash when it is None
NoHash == [kind |-> "none", rows |-> <<>>]

\* A typed table is hashed row by row over its values and its index: the
\* column names are not part of it.  A list is hashed as its JSON text
\* with sorted keys, every missing value written as null.
CalculateDataHash(d) ==
  CASE d.kind = "df" ->
         [kind |-> "pandas",
          rows |-> [i \in 1..Len(d.rows) |->
                      [j \in 1..Len(d.cols) |-> HashCell(d.dtypes[j], d.rows[i][j])]]]
    [] d.kind = "dict" /\ d.rows # <<>> ->
         [kind |-> "json-dict",
          rows |-> [i \in 1..Len(d.rows) |->
                      {<<d.cols[j], Sanitize(d.rows[i][j])>> : j \in 1..Len(d.cols)}]]
    [] d.rows = <<>> -> [kind |-> "json-empty", rows |-> <<>>]
    [] OTHER ->
         [kind |-> "json-list", rows |-> SanitizeRows(d.rows)]

-----------------------------------------------------------------------------
(* _data_as_list *)

\* A masked (nullable) column refuses "" as a fill value
Masked(dtype) == dtype \in {"Int64", "Float64"}

FillnaRaises(df) ==
  \E j \in 1..Len(df.cols) :
     Masked(df.dtypes[j]) /\ \E i \in 1..Len(df.rows) : IsNull(df.rows[i][j])

\* df.fillna(""): a numpy column that held a missing value becomes object
Fillna(df) ==
  LET hadNull(j) == \E i \in 1..Len(df.rows) : IsNull(df.rows[i][j])
  IN Frame(df.cols,
           [j \in 1..Len(df.cols) |-> IF hadNull(j) THEN "object" ELSE df.dtypes[j]],
           [i \in 1..Len(df.rows) |->
              [j \in 1..Len(df.cols) |->
                 IF IsNull(df.rows[i][j]) THEN "" ELSE df.rows[i][j]]])

\* The grid write_data sends, or the exception raised on the way.  For a
\* list, all(isinstance(row, dict) ...) is true of the empty list, whose
\* element 0 is then asked for.
DataAsList(d) ==
  CASE d.kind = "df" ->
         IF FillnaRaises(d) THEN [err |-> "TypeError", values |-> <<>>]
         ELSE [err |-> "none",
               values |-> <<d.cols>> \o ValuesToList(Fillna(d))]
    [] d.rows = <<>> -> [err |-> "IndexError", values |-> <<>>]
    [] d.kind = "dict" -> [err |-> "none", values |-> <<d.cols>> \o d.rows]
    [] OTHER -> [err |-> "none", values |-> d.rows]

-----------------------------------------------------------------------------
(* _data_as_dataframe *)

\* The dtype and values pd.DataFrame gives a column of Python objects
CtorColumn(vals) ==
  LET n == Len(vals) IN
  IF \E i \in 1..n : ~IsNumeric(vals[i]) /\ vals[i] \notin {None_, NaN}
    THEN [dtype |-> "object", vals |-> vals]
  ELSE IF \A i \in 1..n : vals[i] = None_
    THEN [dtype |-> "object", vals |-> vals]
  ELSE IF \A i \in 1..n : vals[i] \in IntVals
    THEN [dtype |-> "int64", vals |-> vals]
  ELSE [dtype |-> "float64",
        vals |-> [i \in 1..n |-> IF IsNull(vals[i]) THEN NaN ELSE ToFloat(vals[i])]]

FrameFromColumns(cols, rows) ==
  LET built == [j \in 1..Len(cols) |-> CtorColumn(Column(rows, j))]
  IN Frame(cols,
           [j \in 1..Len(cols) |-> built[j].dtype],
           [i \in 1..Len(rows) |-> [j \in 1..Len(cols) |-> built[j].vals[i]]])

MaxLen(rows) ==
  IF rows = <<>> THEN 0
  ELSE CHOOSE n \in {Len(rows[i]) : i \in 1..Len(rows)} :
         \A i \in 1..Len(rows) : Len(rows[i]) <= n

\* pd.DataFrame(data): a list of dicts gives its keys as columns; a list
\* of lists gives the columns 0, 1, ... and every list, the first
\* included, as a row
DataAsDataFrame(d) ==
  CASE d.kind = "df" -> d
    [] d.rows = <<>> -> EmptyFrame
    [] d.kind = "dict" -> FrameFromColumns(d.cols, d.rows)
    [] OTHER ->
         LET n == MaxLen(d.rows)
         IN FrameFromColumns(
              [j \in 1..n |-> ToString(j - 1)],
              [i \in 1..Len(d.rows) |->
                 [j \in 1..n |-> IF j <= Len(d.rows[i]) THEN d.rows[i][j] ELSE None_]])

-----------------------------------------------------------------------------
(* filter_rows_by_column *)

\* The characters of the texts and patterns the model uses
Chars(s) ==
  CASE s = "" -> <<>>
    [] s = "ab" -> <<"a", "b">>
    [] s = "a.b" -> <<"a", ".", "b">>
    [] s = "None" -> <<"N", "o", "n", "e">>
    [] OTHER -> <<s>>

\* pattern in text, as Python's `in` on two strings
IsSubstring(pattern, text) ==
  LET p == Chars(pattern)
      t == Chars(text)
  IN \E k \in 0..(Len(t) - Len(p)) : \A i \in 1..Len(p) : t[k + i] = p[i]

\* re.compile(pattern) raises re.error
RegexInvalid(pattern) == pattern = "("

\* re.search(pattern, text) is not None, for the patterns of the model:
\* "." is any character, a pattern without metacharacter is itself
RegexSearch(pattern, text) ==
  IF pattern = "." THEN Chars(text) # <<>> ELSE IsSubstring(pattern, text)

IsStr(c) == ~IsNull(c) /\ ~IsNumeric(c)

\* Series.str raises AttributeError unless the column is an object column
\* that holds something other than numbers
StrAccessorRaises(dtype, vals) ==
  \/ dtype # "object"
  \/ /\ \E i \in 1..Len(vals) : ~IsNull(vals[i])
     /\ \A i \in 1..Len(vals) : ~IsNull(vals[i]) => IsNumeric(vals[i])

\* df[column].str.contains(pattern, na=False): regex=True is the default
ContainsMask(vals, pattern) ==
  [i \in 1..Len(vals) |-> IsStr(vals[i]) /\ RegexSearch(pattern, vals[i])]

SelectRows(rows, mask) ==
  LET F[i \in 0..Len(rows)] ==
        IF i = 0 THEN <<>>
        ELSE IF mask[i] THEN Append(F[i - 1], rows[i]) ELSE F[i - 1]
  IN F[Len(rows)]

\* The outcome of filter_rows_by_column and the rows it returns
FilterRows(d, column, pattern) ==
  LET df == DataAsDataFrame(d) IN
  IF column = "" \/ pattern = "" THEN [result |-> "ValueError", rows |-> <<>>]
  ELSE IF column \notin Range(df.cols) THEN [result |-> "ValueError", rows |-> <<>>]
  ELSE LET j == IndexOf(df.cols, column)
           vals == Column(df.rows, j)
       IN IF StrAccessorRaises(df.dtypes[j], vals) \/ RegexInvalid(pattern)
            THEN [result |-> "RuntimeError", rows |-> <<>>]
          ELSE [result |-> "ok",
                rows |-> SelectRows(df.rows, ContainsMask(vals, pattern))]

\* A filter that keeps its result as the data
FilterAssigns(d, column, pattern) ==
  LET f == FilterRows(d, column, pattern)
      df == DataAsDataFrame(d)
  IN IF f.result = "ok" THEN Frame(df.cols, df.dtypes, f.rows) ELSE d

\* The in-memory data after filter_rows_by_column: the method assigns
\* nothing and df[mask] is a new object
FilterData(d, column, pattern) == d

-----------------------------------------------------------------------------
(* update_row_by_column_pattern.  updates is a dict, modelled as the      *)
(* sequence of its <<column, value>> items in insertion order.            *)

UpdateKeys(updates) == [k \in 1..Len(updates) |-> updates[k][1]]

\* df[name] = None when name is not a column
AddColumn(f, name) ==
  IF name \in Range(f.cols) THEN f
  ELSE Frame(Append(f.cols, name), Append(f.dtypes, "object"),
             [i \in 1..Len(f.rows) |-> Append(f.rows[i], None_)])

AddColumns(f, names) ==
  LET F[k \in 0..Len(names)] == IF k = 0 THEN f ELSE AddColumn(F[k - 1], names[k])
  IN F[Len(names)]

\* df[column] == value, as the labels of the rows where it is true
MatchingRows(f, column, value) ==
  LET j == IndexOf(f.cols, column)
  IN {i \in 1..Len(f.rows) : ValEq(f.rows[i][j], value)}

Min(S) == CHOOSE i \in S : \A k \in S : i <= k

NullOf(dtype) ==
  CASE Masked(dtype) -> NA
    [] dtype \in {"float64", "int64"} -> NaN
    [] OTHER -> None_

\* The dtype of a one-row column pd.DataFrame([new_row]) holding v
NewCellDtype(v) ==
  IF v \in IntVals THEN "int64"
  ELSE IF IsNumeric(v) \/ v = NaN THEN "float64"
  ELSE "object"

Floats(vals) ==
  [i \in 1..Len(vals) |-> IF IsNull(vals[i]) THEN vals[i] ELSE ToFloat(vals[i])]

\* One column of pd.concat([df, pd.DataFrame([new_row])]): pandas 2.x
\* leaves an empty or all-missing side out of the result dtype
ConcatColumn(dtype, vals, v) ==
  LET nd == NewCellDtype(v)
      allNA == \A i \in 1..Len(vals) : IsNull(vals[i])
  IN IF vals = <<>> THEN [dtype |-> nd, vals |-> <<v>>]
     ELSE IF dtype = "object" /\ (IsNull(v) \/ ~allNA \/ nd = "object")
       THEN [dtype |-> "object", vals |-> Append(vals, v)]
     ELSE IF IsNull(v)
       THEN IF dtype = "int64"
              THEN [dtype |-> "float64", vals |-> Append(Floats(vals), NaN)]
              ELSE [dtype |-> dtype, vals |-> Append(vals, NullOf(dtype))]
     ELSE IF allNA /\ ~Masked(dtype)
       THEN IF nd = "object"
              THEN [dtype |-> "object", vals |-> Append(vals, v)]
              ELSE [dtype |-> "float64",
                    vals |-> Append([i \in 1..Len(vals) |-> NaN], ToFloat(v))]
     ELSE IF nd = "object"
       THEN [dtype |-> "object", vals |-> Append(vals, v)]
     ELSE IF dtype = "int64" /\ nd = "int64"
       THEN [dtype |-> "int64", vals |-> Append(vals, v)]
     ELSE IF dtype = "Int64" /\ nd = "int64"
       THEN [dtype |-> "Int64", vals |-> Append(vals, v)]
     ELSE IF Masked(dtype)
       THEN [dtype |-> "Float64", vals |-> Append(Floats(vals), ToFloat(v))]
     ELSE [dtype |-> "float64", vals |-> Append(Floats(vals), ToFloat(v))]

\* new_row: None everywhere, then column: value, then the updates
NewRow(f, column, value, updates) ==
  [j \in 1..Len(f.cols) |->
     IF f.cols[j] \in Range(UpdateKeys(updates))
       THEN updates[IndexOf(UpdateKeys(updates), f.cols[j])][2]
     ELSE IF f.cols[j] = column THEN value
     ELSE None_]

\* pd.concat([df, pd.DataFrame([new_row])], ignore_index=True)
ConcatRow(f, new_row) ==
  LET built == [j \in 1..Len(f.cols) |->
                  ConcatColumn(f.dtypes[j], Column(f.rows, j), new_row[j])]
  IN Frame(f.cols,
           [j \in 1..Len(f.cols) |-> built[j].dtype],
           [i \in 1..(Len(f.rows) + 1) |-> [j \in 1..Len(f.cols) |-> built[j].vals[i]]])

FloatOf(c) == IF IsNull(c) THEN c ELSE ToFloat(c)

\* The frame with cell (i, j) set to v and column j of dtype; an upcast
\* from int64 to float64 converts the column's other values
SetCell(f, dtype, i, j, v, toFloat) ==
  Frame(f.cols,
        [c \in 1..Len(f.cols) |-> IF c = j THEN dtype ELSE f.dtypes[c]],
        [r \in 1..Len(f.rows) |->
           [c \in 1..Len(f.cols) |->
              IF c # j THEN f.rows[r][c]
              ELSE IF r = i THEN v
              ELSE IF toFloat THEN FloatOf(f.rows[r][c])
              ELSE f.rows[r][c]]])

\* df.at[i, col] = v: a masked column raises TypeError for a value it
\* cannot hold, a numpy column is upcast
SetAt(f, i, j, v) ==
  LET dtype == f.dtypes[j] IN
  CASE dtype = "object" -> [err |-> "none", frame |-> SetCell(f, dtype, i, j, v, FALSE)]
    [] dtype = "Int64" ->
         IF IsNull(v) THEN [err |-> "none", frame |-> SetCell(f, dtype, i, j, NA, FALSE)]
         ELSE IF IsIntegral(v)
           THEN [err |-> "none", frame |-> SetCell(f, dtype, i, j, ToInt(v), FALSE)]
         ELSE [err |-> "TypeError", frame |-> f]
    [] dtype = "Float64" ->
         IF IsNull(v) THEN [err |-> "none", frame |-> SetCell(f, dtype, i, j, NA, FALSE)]
         ELSE IF IsNumeric(v)
           THEN [err |-> "none", frame |-> SetCell(f, dtype, i, j, ToFloat(v), FALSE)]
         ELSE [err |-> "TypeError", frame |-> f]
    [] dtype = "float64" ->
         IF IsNull(v) THEN [err |-> "none", frame |-> SetCell(f, dtype, i, j, NaN, FALSE)]
         ELSE IF IsNumeric(v)
           THEN [err |-> "none", frame |-> SetCell(f, dtype, i, j, ToFloat(v), FALSE)]
         ELSE [err |-> "none", frame |-> SetCell(f, "object", i, j, v, FALSE)]
    [] OTHER ->
         IF IsNull(v)
           THEN [err |-> "none", frame |-> SetCell(f, "float64", i, j, NaN, TRUE)]
         ELSE IF IsIntegral(v)
           THEN [err |-> "none", frame |-> SetCell(f, dtype, i, j, ToInt(v), FALSE)]
         ELSE IF IsNumeric(v)
           THEN [err |-> "none", frame |-> SetCell(f, "float64", i, j, v, TRUE)]
         ELSE [err |-> "none", frame |-> SetCell(f, "object", i, j, v, FALSE)]

\* The loop over updates.items() on the first matching row; it stops at
\* the first exception
ApplyUpdates(f, i, updates) ==
  LET F[k \in 0..Len(updates)] ==
        IF k = 0 THEN [err |-> "none", frame |-> f]
        ELSE IF F[k - 1].err # "none" THEN F[k - 1]
        ELSE SetAt(F[k - 1].frame, i,
                   IndexOf(F[k - 1].frame.cols, updates[k][1]), updates[k][2])
  IN F[Len(updates)]

\* The assignment to self.data that ends the method: no sanitization
UpsertShape(f, fmt) ==
  CASE fmt = "dict" -> DictList(f.cols, f.rows)
    [] fmt = "list" -> ListOfLists(<<f.cols>> \o ValuesToList(f))
    [] OTHER -> f

\* The outcome of update_row_by_column_pattern and the data it leaves.
\* A typed table is changed in place, so what was done before an
\* exception stays done.
UpdateRow(d, fmt, column, value, updates) ==
  IF column = "" \/ updates = <<>> THEN [result |-> "ValueError", data |-> d]
  ELSE LET f == AddColumns(DataAsDataFrame(d), <<column>> \o UpdateKeys(updates))
           matching == MatchingRows(f, column, value)
       IN IF matching = {}
            THEN [result |-> "ok",
                  data |-> UpsertShape(ConcatRow(f, NewRow(f, column, value, updates)), fmt)]
          ELSE LET done == ApplyUpdates(f, Min(matching), updates)
               IN IF done.err = "none"
                    THEN [result |-> "ok", data |-> UpsertShape(done.frame, fmt)]
                  ELSE [result |-> done.err,
                        data |-> IF d.kind = "df" THEN done.frame ELSE d]

-----------------------------------------------------------------------------
(* The remote tab.  Its grid is held the way the service returns it:      *)
(* trailing empty cells of a row and trailing empty rows are left out.    *)

TrimRow(row) ==
  LET filled == {j \in 1..Len(row) : row[j] # ""}
  IN IF filled = {} THEN <<>>
     ELSE SubSeq(row, 1, CHOOSE j \in filled : \A k \in filled : k <= j)

TrimGrid(grid) ==
  LET rows == [i \in 1..Len(grid) |-> TrimRow(grid[i])]
      filled == {i \in 1..Len(rows) : rows[i] # <<>>}
  IN IF filled = {} THEN <<>>
     ELSE SubSeq(rows, 1, CHOOSE i \in filled : \A k \in filled : k <= i)

\* What a cell holds after a write with value_input_option USER_ENTERED:
\* a number is a number, whatever its Python type was
Entered(c) == IF IsIntegral(c) THEN ToInt(c) ELSE c

\* The request body is JSON: NaN and pd.NA cannot be sent
Serializable(values) ==
  \A i \in 1..Len(values) : \A j \in 1..Len(values[i]) : values[i][j] \notin {NaN, NA}

Max(a, b) == IF a >= b THEN a ELSE b

\* worksheet.update(values) from the top-left cell: a null in the body
\* leaves the cell as it is, "" empties it
UpdateGrid(grid, values) ==
  LET old(i, j) == IF i <= Len(grid) /\ j <= Len(grid[i]) THEN grid[i][j] ELSE ""
      width(i) == Max(IF i <= Len(grid) THEN Len(grid[i]) ELSE 0,
                      IF i <= Len(values) THEN Len(values[i]) ELSE 0)
  IN TrimGrid([i \in 1..Max(Len(grid), Len(values)) |->
                 [j \in 1..width(i) |->
                    IF i <= Len(values) /\ j <= Len(values[i]) /\ values[i][j] # None_
                      THEN Entered(values[i][j])
                      ELSE old(i, j)]])

\* The effect of one remote call of write_data on the tab
ApplyCall(r, call, values) ==
  CASE call = "clear" -> [r EXCEPT !.grid = <<>>]
    [] call = "update" -> [r EXCEPT !.grid = UpdateGrid(r.grid, values)]
    [] call = "set_basic_filter" -> [r EXCEPT !.filter = TRUE]
    [] call = "freeze" -> [r EXCEPT !.frozen = TRUE]
    [] call = "format" -> [r EXCEPT !.bold = TRUE]
    [] OTHER -> r

-----------------------------------------------------------------------------
(* write_data *)

\* A write_data whose guard never finds the data unchanged
UnchangedNever(t) == FALSE

\* The guard at the top of write_data
Unchanged(t) == t.hash # NoHash /\ t.hash = CalculateDataHash(t.data)

\* A write_data that clears the tab after it wrote
WritePlanClearsLast(t, overwrite_tab, as_table) ==
  (IF t.ws THEN <<>> ELSE <<"worksheet">>)
  \o (IF overwrite_tab THEN <<"update", "clear">> ELSE <<"update">>)
  \o (IF as_table THEN <<"set_basic_filter", "freeze", "format">> ELSE <<>>)

\* The remote calls write_data makes, in order; the worksheet is looked
\* up first when the cached_property holds nothing
WritePlan(t, overwrite_tab, as_table) ==
  (IF t.ws THEN <<>> ELSE <<"worksheet">>)
  \o (IF overwrite_tab THEN <<"clear", "update">> ELSE <<"update">>)
  \o (IF as_table THEN <<"set_basic_filter", "freeze", "format">> ELSE <<>>)

\* chr(65 + n - 1) is a column letter up to Z
Letters == 26

\* The range of the update without overwrite_tab, 'A1:' and the end
\* cell chr(65 + len(values[0]) - 1) followed by len(values): its last
\* column and row, and whether the text names a cell
EndCell(values) ==
  [col |-> Len(values[1]), row |-> Len(values), a1 |-> Len(values[1]) <= Letters]

\* The service refuses an update whose range is no A1 notation or whose
\* values do not fit into the range
RangeRejected(values) ==
  \/ ~EndCell(values).a1
  \/ \E i \in 1..Len(values) : Len(values[i]) > EndCell(values).col

\* The position of the first call of the plan that fails, 0 when none
\* does: the injected failure, the update whose body cannot be sent, or
\* the update into a range (ranged) that the service refuses
FirstFailure(plan, values, ranged, failAt) ==
  LET bad == {k \in 1..Len(plan) :
                \/ k = failAt
                \/ plan[k] = "update" /\ ~Serializable(values)
                \/ plan[k] = "update" /\ ranged /\ RangeRejected(values)}
  IN IF bad = {} THEN 0 ELSE Min(bad)

\* The remote tab after the calls 1..n of the plan took effect
AfterCalls(r, plan, n, values) ==
  LET F[k \in 0..n] == IF k = 0 THEN r ELSE ApplyCall(F[k - 1], plan[k], values)
  IN F[n]

\* A write_data that stores the hash before its remote calls
HashBeforeCalls(t, failed) == CalculateDataHash(t.data)

\* _stored_data_hash after write_data: assigned after the last remote call
HashAfterWrite(t, failed) == IF failed THEN t.hash ELSE CalculateDataHash(t.data)

\* A write_data that reads the tab and skips the write when the tab holds
\* its data
WriteDataByRemote(t, r, overwrite_tab, as_table, failAt) ==
  LET rd == ReadData(r.grid, t.fmt)
  IN IF rd.err = "none" /\ rd.data = t.data
       THEN [result |-> "noop", calls |-> <<>>, tab |-> t, remote |-> r]
       ELSE [result |-> "ok", calls |-> <<"update">>,
             tab |-> [t EXCEPT !.hash = CalculateDataHash(t.data), !.ws = TRUE],
             remote |-> [r EXCEPT !.grid =
                           UpdateGrid(r.grid, DataAsList(t.data).values)]]

\* write_data(overwrite_tab, as_table) with the remote failing at call
\* failAt of the plan (0: no failure): the outcome, the remote calls made,
\* the accessor and the remote tab
WriteData(t, r, overwrite_tab, as_table, failAt) ==
  LET converted == DataAsList(t.data)
      values == converted.values
      plan == WritePlan(t, overwrite_tab, as_table)
      bad == FirstFailure(plan, values, ~overwrite_tab, failAt)
      made == IF bad = 0 THEN plan ELSE SubSeq(plan, 1, bad)
      done == IF bad = 0 THEN Len(plan) ELSE bad - 1
  IN IF Unchanged(t)
       THEN [result |-> "noop", calls |-> <<>>, tab |-> t, remote |-> r]
     ELSE IF converted.err # "none"
       THEN [result |-> "RuntimeError", calls |-> <<>>, tab |-> t, remote |-> r]
     ELSE IF values = <<>> \/ values[1] = <<>>
       THEN [result |-> "ValueError", calls |-> <<>>, tab |-> t, remote |-> r]
     ELSE [result |-> IF bad = 0 THEN "ok" ELSE "RuntimeError",
           calls |-> made,
           tab |-> [t EXCEPT !.hash = HashAfterWrite(t, bad # 0),
                             !.ws = t.ws \/ done >= 1],
           remote |-> AfterCalls(r, plan, done, values)]

-----------------------------------------------------------------------------
(* The accessor and its operations *)

VARIABLES
  remote,   \* the tab at the service: its grid and its table formatting
  tab,      \* the SmartTab: data_format, data, _stored_data_hash, and
            \* whether the cached_property _worksheet holds the worksheet
  last,     \* the last call made on the accessor: its arguments, its
            \* outcome, the remote calls it made, what it returned and
            \* whether it changed the in-memory data
  steps,    \* the number of calls so far that changed the accessor or the tab
  spread,   \* the SmartSpread: what its cached properties sheet and
            \* tab_names hold, whether user_email is set, and how many
            \* times it resolved the spreadsheet since the last refresh
  drive     \* the account at the service: whether a spreadsheet has the
            \* identifier as its ID, whether one has it as its title, the
            \* tabs of the spreadsheet the identifier resolves to, whether
            \* it was shared and whether _create_sheet made it

vars == <<remote, tab, last, steps, spread, drive>>

MaxSteps == 2

Formats == {"DataFrame", "dict", "list"}

\* No accessor yet
NoTab ==
  [fmt |-> "none", data |-> EmptyFrame, hash |-> NoHash, ws |-> FALSE,
   keep |-> FALSE]

NoCall ==
  [op |-> "none", result |-> "none", calls |-> <<>>, ret |-> <<>>,
   column |-> "", value |-> "", updates |-> <<>>,
   overwrite_tab |-> FALSE, as_table |-> FALSE, changed |-> FALSE,
   fault |-> "none", sheet |-> "", data_format |-> ""]

\* A SmartSpread just constructed: nothing resolved, nothing cached
NewSpread(user_email) ==
  [sheet |-> "none", names |-> [cached |-> FALSE, value |-> {}],
   user_email |-> user_email, resolved |-> 0]

\* The account the accessor's runs leave alone
NoDrive ==
  [byKey |-> TRUE, byName |-> FALSE, tabs |-> [n \in {"Sheet1"} |-> <<>>],
   shared |-> FALSE, made |-> FALSE]

\* SmartTab.__init__ on an existing tab: the lookup caches the worksheet,
\* and the ValueError of read_data leaves an empty table and no hash
NewTab(grid, fmt) ==
  LET rd == ReadData(grid, fmt)
  IN IF rd.err = "none"
       THEN [fmt |-> fmt, data |-> rd.data, hash |-> CalculateDataHash(rd.data),
             ws |-> TRUE, keep |-> FALSE]
       ELSE [fmt |-> fmt, data |-> EmptyFrame, hash |-> NoHash, ws |-> TRUE,
             keep |-> FALSE]

\* A refresh that stores the hash of what it read and keeps the data
RefreshedHashOnly(t, rd) ==
  IF rd.err = "none"
    THEN [t EXCEPT !.ws = FALSE, !.hash = CalculateDataHash(rd.data)]
    ELSE [t EXCEPT !.ws = FALSE]

\* refresh(): the cached worksheet is dropped, then read_data (rd is what
\* it read), whose exception leaves data and hash as they were
Refreshed(t, rd) ==
  IF rd.err = "none"
    THEN [t EXCEPT !.ws = FALSE, !.data = rd.data,
                   !.hash = CalculateDataHash(rd.data)]
    ELSE [t EXCEPT !.ws = FALSE]

\* The tabs the runs start from
InitGrids ==
  { <<>>,
    << <<"A", "B">> >>,
    << <<"A", "B">>, <<"1", "ab">>, <<"", "b">>, <<"1", "ab">> >>,
    << <<"A", "B">>, <<"1.5", "ab">>, <<"1">> >> }

\* The typed tables a caller assigns to tab.data
CallerTables ==
  { Frame(<<"A", "B">>, <<"int64", "object">>, << <<"1", "ab">>, <<"2", "">> >>),
    Frame(<<"A", "B">>, <<"float64", "object">>, << <<"1.5", "ab">>, <<NaN, None_>> >>) }

\* The data_format whose shape a value has
FormatOf(d) ==
  CASE d.kind = "df" -> "DataFrame"
    [] d.kind = "dict" -> "dict"
    [] OTHER -> "list"

\* Data of every shape a caller assigns before a write: tables with and
\* without missing values, the same table under another column name, the
\* empty values of each shape, a row longer than the header, and lists
\* as wide as the letters of the alphabet and one column wider
DataValues ==
  CallerTables \cup
  { EmptyFrame,
    Frame(<<"Z", "B">>, <<"int64", "object">>, << <<"1", "ab">>, <<"2", "">> >>),
    Frame(<<"A", "B">>, <<"Int64", "object">>, << <<"1", "ab">>, <<NA, "b">> >>),
    Frame(<<"A", "B">>, <<"Int64", "object">>, << <<"1", "ab">>, <<"2", None_>> >>),
    DictList(<<"A", "B">>, << <<"1", "ab">>, <<"2", None_>> >>),
    DictList(<<"A", "B">>, << <<"1", "ab">>, <<"2", NaN>> >>),
    DictList(<<"A", "B">>, << <<"1", "ab">>, <<"2", "b">> >>),
    ListOfLists(<< <<"A", "B">>, <<"1", "ab">>, <<"2", None_>> >>),
    ListOfLists(<< <<"A", "B">>, <<"1", "ab">>, <<"2", NaN>> >>),
    ListOfLists(<< <<"Z", "B">>, <<"1", "ab">>, <<"2", None_>> >>),
    ListOfLists(<< <<"A", "B">>, <<"1", "ab">>, <<"2", "b">> >>),
    ListOfLists(<<>>),
    ListOfLists(<< <<>> >>),
    ListOfLists(<< <<"A">>, <<"1", "ab">> >>),
    ListOfLists(<< [j \in 1..Letters |-> "A"], [j \in 1..Letters |-> "1"] >>),
    ListOfLists(<< [j \in 1..Letters + 1 |-> "A"], [j \in 1..Letters + 1 |-> "1"] >>) }

\* The upserts a caller makes: <<column, value, updates>>
UpsertCalls ==
  { <<"A", "1", << <<"B", "x">> >> >>,
    <<"A", "1", << <<"B", "ab">> >> >>,
    <<"A", "2", << <<"B", "x">> >> >>,
    <<"C", "1", << <<"B", "x">> >> >>,
    <<"B", "ab", << <<"C", "1">>, <<"A", "x">> >> >>,
    <<"A", "1", <<>> >> }

\* The filters a caller makes: <<column, pattern>>
FilterCalls ==
  { <<"B", "a">>, <<"B", ".">>, <<"B", "(">>, <<"A", "1">>,
    <<"Z", "a">>, <<"", "a">>, <<"B", "">> }

Init ==
  /\ remote \in {[grid |-> g, filter |-> FALSE, frozen |-> FALSE, bold |-> FALSE,
                    numfmt |-> "plain"] :
                   g \in InitGrids}
  /\ tab = NoTab
  /\ last = NoCall
  /\ steps = 0
  /\ spread = NewSpread(FALSE)
  /\ drive = NoDrive

\* A call counts when it changed the accessor or the tab
Count ==
  /\ steps' = IF <<tab', remote'>> = <<tab, remote>> THEN steps ELSE steps + 1
  /\ steps' <= MaxSteps

\* SmartTab(sheet, tab_name, data_format) on an existing tab.  When the
\* read of the values fails at the service, the RuntimeError of
\* _read_values leaves the constructor and there is no accessor.
Construct(fmt, fails) ==
  /\ tab.fmt = "none"
  /\ tab' = IF fails THEN tab ELSE NewTab(remote.grid, fmt)
  /\ remote' = remote
  /\ last' = [NoCall EXCEPT !.op = "construct",
                            !.result = IF fails THEN "RuntimeError" ELSE "ok",
                            !.calls = <<"worksheet", "values_batch_get">>]
  /\ steps' = steps
  /\ UNCHANGED <<spread, drive>>

\* tab.data = d
AssignData(d) ==
  /\ tab.fmt = FormatOf(d)
  /\ tab' = [tab EXCEPT !.data = d]
  /\ remote' = remote
  /\ last' = [NoCall EXCEPT !.op = "assign", !.result = "ok",
                            !.changed = (d # tab.data)]
  /\ UNCHANGED <<spread, drive>>

Assign(d) == AssignData(d) /\ Count

\* tab.write_data(overwrite_tab, as_table), the service failing at call
\* failAt of the plan
WriteCall(overwrite_tab, as_table, failAt) ==
  /\ tab.fmt # "none"
  /\ failAt <= Len(WritePlan(tab, overwrite_tab, as_table))
  /\ \E w \in {WriteData(tab, remote, overwrite_tab, as_table, failAt)} :
        /\ failAt # 0 => w.result = "RuntimeError" /\ Len(w.calls) = failAt
        /\ tab' = w.tab
        /\ remote' = w.remote
        /\ last' = [NoCall EXCEPT !.op = "write", !.result = w.result,
                                  !.calls = w.calls,
                                  !.fault = IF failAt = 0 THEN "none"
                                            ELSE w.calls[failAt],
                                  !.overwrite_tab = overwrite_tab,
                                  !.as_table = as_table]
  /\ UNCHANGED <<spread, drive>>

Write(overwrite_tab, as_table, failAt) ==
  WriteCall(overwrite_tab, as_table, failAt) /\ Count

Upsert(call) ==
  /\ tab.fmt # "none"
  /\ \E u \in {UpdateRow(tab.data, tab.fmt, call[1], call[2], call[3])} :
        /\ tab' = [tab EXCEPT !.data = u.data]
        /\ last' = [NoCall EXCEPT !.op = "upsert", !.result = u.result,
                                  !.column = call[1], !.value = call[2],
                                  !.updates = call[3],
                                  !.changed = (u.data # tab.data)]
  /\ remote' = remote
  /\ UNCHANGED <<spread, drive>>
  /\ Count

Filter(call) ==
  /\ tab.fmt # "none"
  /\ \E f \in {FilterRows(tab.data, call[1], call[2])} :
        last' = [NoCall EXCEPT !.op = "filter", !.result = f.result,
                               !.ret = f.rows,
                               !.column = call[1], !.value = call[2]]
  /\ tab' = [tab EXCEPT !.data = FilterData(tab.data, call[1], call[2])]
  /\ remote' = remote
  /\ UNCHANGED <<spread, drive>>
  /\ Count

\* tab.refresh()
RefreshCall ==
  /\ tab.fmt # "none"
  /\ \E rd \in {ReadData(ReadValues(remote, tab.keep), tab.fmt)} :
        /\ tab' = Refreshed(tab, rd)
        /\ last' = [NoCall EXCEPT
                      !.op = "refresh",
                      !.changed = (tab'.data # tab.data),
                      !.result = IF rd.err = "none" THEN "ok" ELSE "ValueError",
                      !.calls = <<"values_batch_get">>]
  /\ remote' = remote
  /\ UNCHANGED <<spread, drive>>

Refresh == RefreshCall /\ Count

\* The life of an accessor: construction, then assignments, upserts,
\* writes (with the remote failing anywhere) and refreshes
Next ==
  \/ \E fmt \in Formats, fails \in BOOLEAN : Construct(fmt, fails)
  \/ \E d \in CallerTables : Assign(d)
  \/ \E o, a \in BOOLEAN, failAt \in 0..6 : Write(o, a, failAt)
  \/ \E call \in UpsertCalls : Upsert(call)
  \/ Refresh

Spec == Init /\ [][Next]_vars

\* Filters on every data an accessor holds after construction,
\* assignments and upserts
NextFilter ==
  \/ \E fmt \in Formats, fails \in BOOLEAN : Construct(fmt, fails)
  \/ \E d \in CallerTables : Assign(d)
  \/ \E call \in UpsertCalls : Upsert(call)
  \/ \E call \in FilterCalls : Filter(call)

FilterSpec == Init /\ [][NextFilter]_vars

\* Writes of every data value a caller assigns
NextData ==
  \/ \E fmt \in Formats, fails \in BOOLEAN : Construct(fmt, fails)
  \/ \E d \in DataValues : Assign(d)
  \/ \E o, a \in BOOLEAN, failAt \in 0..6 : Write(o, a, failAt)

DataSpec == Init /\ [][NextData]_vars

\* The tables another accessor of the same tab writes
OtherTables ==
  { Frame(<<"Z", "B">>, <<"int64", "object">>, << <<"1", "ab">>, <<"2", "">> >>),
    Frame(<<"A", "B">>, <<"int64", "object">>, << <<"1", "ab">>, <<"2", "">> >>) }

\* Another accessor bound to the same tab is constructed, is given the
\* table d and writes it; this accessor is not touched
OtherWrite(d, overwrite_tab) ==
  /\ tab.fmt # "none"
  /\ \E w \in {WriteData([NewTab(remote.grid, FormatOf(d)) EXCEPT !.data = d],
                          remote, overwrite_tab, FALSE, 0)} :
        /\ remote' = w.remote
        /\ last' = [NoCall EXCEPT !.op = "other_write", !.result = w.result,
                                  !.calls = w.calls,
                                  !.overwrite_tab = overwrite_tab,
                                  !.changed = (w.remote # remote)]
  /\ UNCHANGED <<tab, steps, spread, drive>>

SharedAssign(d) == AssignData(d) /\ steps' = steps

SharedWrite(overwrite_tab, as_table, failAt) ==
  WriteCall(overwrite_tab, as_table, failAt) /\ steps' = steps

SharedRefresh == RefreshCall /\ steps' = steps

\* Two accessors of one tab: this one is constructed, assigned, written
\* and refreshed, and the other one writes in between
NextShared ==
  \/ \E fmt \in Formats, fails \in BOOLEAN : Construct(fmt, fails)
  \/ \E d \in CallerTables : SharedAssign(d)
  \/ \E o, a \in BOOLEAN, failAt \in 0..6 : SharedWrite(o, a, failAt)
  \/ \E d \in OtherTables, o \in BOOLEAN : OtherWrite(d, o)
  \/ SharedRefresh

SharedSpec == Init /\ [][NextShared]_vars

\* SmartTab.__init__ with keep_number_formatting=True on an existing tab
NewFormattedTab(r, fmt) ==
  [NewTab(ReadValues(r, TRUE), fmt) EXCEPT !.keep = TRUE]

\* SmartTab(sheet, tab_name, data_format, keep_number_formatting=True) on
\* an existing tab
ConstructFormatted(fmt, fails) ==
  /\ tab.fmt = "none"
  /\ tab' = IF fails THEN tab ELSE NewFormattedTab(remote, fmt)
  /\ remote' = remote
  /\ last' = [NoCall EXCEPT !.op = "construct_formatted",
                            !.result = IF fails THEN "RuntimeError" ELSE "ok",
                            !.calls = <<"worksheet", "get_all_values">>]
  /\ steps' = steps
  /\ UNCHANGED <<spread, drive>>

\* read_data on every grid of a bounded family, in every shape
MaxReadRows == 2

ReadHeaders ==
  { <<"">>, <<"A">>, <<"A", "B">>, <<"", "B">>, <<"A", "A">>, <<"", "Column_1">> }

ReadCells == {"", "1", "1.5", "ab", "None"}

ReadGrids ==
  { TrimGrid(<<h>> \o rows) :
      <<h, rows>> \in
        UNION { {h} \X UNION { [1..n -> [1..Len(h) -> ReadCells]] : n \in 0..MaxReadRows } :
                h \in ReadHeaders } }

InitRead ==
  /\ remote \in {[grid |-> g, filter |-> FALSE, frozen |-> FALSE, bold |-> FALSE,
                    numfmt |-> "plain"] :
                   g \in ReadGrids \cup {<<>>}}
  /\ tab = NoTab
  /\ last = NoCall
  /\ steps = 0
  /\ spread = NewSpread(FALSE)
  /\ drive = NoDrive

NextRead == \E fmt \in Formats, fails \in BOOLEAN : Construct(fmt, fails)

ReadSpec == InitRead /\ [][NextRead]_vars

\* The tabs read with keep_number_formatting: two columns under a header,
\* their numbers shown plainly or as currency
FormattedGrids ==
  { TrimGrid(<< <<"A", "B">> >> \o rows) :
      rows \in UNION { [1..n -> [1..2 -> ReadCells]] : n \in 0..MaxReadRows } }

InitFormatted ==
  /\ remote \in {[grid |-> g, filter |-> FALSE, frozen |-> FALSE, bold |-> FALSE,
                   numfmt |-> f] :
                   g \in FormattedGrids \cup {<<>>}, f \in NumberFormats}
  /\ tab = NoTab
  /\ last = NoCall
  /\ steps = 0
  /\ spread = NewSpread(FALSE)
  /\ drive = NoDrive

\* Accessors with and without keep_number_formatting, and their refresh
NextFormatted ==
  \/ \E fmt \in Formats, fails \in BOOLEAN : Construct(fmt, fails)
  \/ \E fmt \in Formats, fails \in BOOLEAN : ConstructFormatted(fmt, fails)
  \/ SharedRefresh

FormattedSpec == InitFormatted /\ [][NextFormatted]_vars

-----------------------------------------------------------------------------
(* SmartSpread: the spreadsheet, its tabs and its cached properties *)

\* The remote calls of one operation that a failure of the service other
\* than not-found can hit; an operation meets at most one such failure
FaultSites ==
  {"none", "open_by_key", "open", "create", "share", "worksheets",
   "worksheet", "add_worksheet", "values_batch_get"}

\* The tab names a caller passes
TabNames == {"", "Sheet1", "Data"}

\* A new spreadsheet has one empty tab
NewSheetTabs == [n \in {"Sheet1"} |-> <<>>]

\* A resolution that asks for the name first and for the ID after it
ResolveNameFirst(sp, dr, fault) ==
  IF sp.sheet # "none"
    THEN [result |-> "ok", calls |-> <<>>, spread |-> sp]
  ELSE IF fault = "open"
    THEN [result |-> "APIError", calls |-> <<"open">>, spread |-> sp]
  ELSE IF dr.byName
    THEN [result |-> "ok", calls |-> <<"open">>,
          spread |-> [sp EXCEPT !.sheet = "name", !.resolved = @ + 1]]
  ELSE IF fault = "open_by_key"
    THEN [result |-> "APIError", calls |-> <<"open", "open_by_key">>, spread |-> sp]
  ELSE IF dr.byKey
    THEN [result |-> "ok", calls |-> <<"open", "open_by_key">>,
          spread |-> [sp EXCEPT !.sheet = "key", !.resolved = @ + 1]]
  ELSE [result |-> "ValueError", calls |-> <<"open", "open_by_key">>, spread |-> sp]

\* The cached property sheet: what is cached is returned without a call;
\* otherwise open_by_key, and open only after SpreadsheetNotFound; any
\* other exception of either lookup leaves as it is, and nothing is
\* cached unless a lookup returned the spreadsheet
Resolve(sp, dr, fault) ==
  IF sp.sheet # "none"
    THEN [result |-> "ok", calls |-> <<>>, spread |-> sp]
  ELSE IF fault = "open_by_key"
    THEN [result |-> "APIError", calls |-> <<"open_by_key">>, spread |-> sp]
  ELSE IF dr.byKey
    THEN [result |-> "ok", calls |-> <<"open_by_key">>,
          spread |-> [sp EXCEPT !.sheet = "key", !.resolved = @ + 1]]
  ELSE IF fault = "open"
    THEN [result |-> "APIError", calls |-> <<"open_by_key", "open">>, spread |-> sp]
  ELSE IF dr.byName
    THEN [result |-> "ok", calls |-> <<"open_by_key", "open">>,
          spread |-> [sp EXCEPT !.sheet = "name", !.resolved = @ + 1]]
  ELSE [result |-> "ValueError", calls |-> <<"open_by_key", "open">>, spread |-> sp]

\* _create_sheet(share_publicly): create, then the public share, then the
\* share with user_email; nothing is caught and nothing is cached.  The
\* identifier then resolves to the new spreadsheet unless it already
\* resolved to one.
CreateSheet(sp, dr, share_publicly, fault) ==
  LET shares == (IF share_publicly THEN <<"share">> ELSE <<>>)
                \o (IF sp.user_email THEN <<"share">> ELSE <<>>)
      created == [dr EXCEPT !.byName = TRUE,
                            !.tabs = IF dr.byKey \/ dr.byName THEN @ ELSE NewSheetTabs,
                            !.made = IF dr.byKey \/ dr.byName THEN @ ELSE TRUE]
  IN IF fault = "create"
       THEN [result |-> "APIError", calls |-> <<"create">>, drive |-> dr]
     ELSE IF fault = "share" /\ shares # <<>>
       THEN [result |-> "APIError", calls |-> <<"create", "share">>, drive |-> created]
     ELSE [result |-> "ok", calls |-> <<"create">> \o shares,
           drive |-> IF shares # <<>> /\ ~(dr.byKey \/ dr.byName)
                       THEN [created EXCEPT !.shared = TRUE] ELSE created]

\* grant_access(email, role): one share on the resolved spreadsheet, every
\* exception, the resolution's ValueError included, wrapped
GrantAccess(sp, dr, fault) ==
  LET r == Resolve(sp, dr, fault)
  IN IF r.result # "ok"
       THEN [result |-> "RuntimeError", calls |-> r.calls, spread |-> r.spread,
             drive |-> dr]
     ELSE IF fault = "share"
       THEN [result |-> "RuntimeError", calls |-> r.calls \o <<"share">>,
             spread |-> r.spread, drive |-> dr]
     ELSE [result |-> "ok", calls |-> r.calls \o <<"share">>,
           spread |-> r.spread, drive |-> [dr EXCEPT !.shared = TRUE]]

\* The cached property tab_names: the titles of worksheets(), every
\* exception wrapped, and nothing cached unless the list was returned
TabNamesOf(sp, dr, fault) ==
  IF sp.names.cached
    THEN [result |-> "ok", calls |-> <<>>, spread |-> sp, ret |-> sp.names.value]
  ELSE
    LET r == Resolve(sp, dr, fault)
    IN IF r.result # "ok"
         THEN [result |-> "RuntimeError", calls |-> r.calls, spread |-> r.spread,
               ret |-> {}]
       ELSE IF fault = "worksheets"
         THEN [result |-> "RuntimeError", calls |-> r.calls \o <<"worksheets">>,
               spread |-> r.spread, ret |-> {}]
       ELSE [result |-> "ok", calls |-> r.calls \o <<"worksheets">>,
             spread |-> [r.spread EXCEPT !.names =
                            [cached |-> TRUE, value |-> DOMAIN dr.tabs]],
             ret |-> DOMAIN dr.tabs]

\* A tab_exists that takes every failure of the lookup for an absent tab
TabExistsSwallows(sp, dr, tab_name, fault) ==
  LET r == Resolve(sp, dr, fault)
  IN IF tab_name = ""
       THEN [result |-> "ValueError", calls |-> <<>>, spread |-> sp, ret |-> FALSE]
     ELSE IF r.result # "ok"
       THEN [result |-> "ok", calls |-> r.calls, spread |-> r.spread, ret |-> FALSE]
     ELSE [result |-> "ok", calls |-> r.calls \o <<"worksheet">>,
           spread |-> r.spread,
           ret |-> fault # "worksheet" /\ tab_name \in DOMAIN dr.tabs]

\* tab_exists(tab_name): the empty name is refused before any call;
\* WorksheetNotFound is False, every other exception is wrapped
TabExists(sp, dr, tab_name, fault) ==
  IF tab_name = ""
    THEN [result |-> "ValueError", calls |-> <<>>, spread |-> sp, ret |-> FALSE]
  ELSE
    LET r == Resolve(sp, dr, fault)
    IN IF r.result # "ok"
         THEN [result |-> "RuntimeError", calls |-> r.calls, spread |-> r.spread,
               ret |-> FALSE]
       ELSE IF fault = "worksheet"
         THEN [result |-> "RuntimeError", calls |-> r.calls \o <<"worksheet">>,
               spread |-> r.spread, ret |-> FALSE]
       ELSE [result |-> "ok", calls |-> r.calls \o <<"worksheet">>,
             spread |-> r.spread, ret |-> tab_name \in DOMAIN dr.tabs]

\* The data_format arguments a caller of the handle passes
DataFormats == {"DataFrame", "list", "csv"}

\* A constructor that checks its arguments after the tab was looked up
ConstructTabLate(sheet, dr, tab_name, data_format, fault) ==
  IF sheet = "none" \/ tab_name = "" \/ data_format \notin Formats
    THEN [result |-> "ValueError", calls |-> <<"worksheet">>, drive |-> dr]
    ELSE [result |-> "ok", calls |-> <<"worksheet", "values_batch_get">>,
          drive |-> dr]

\* SmartTab.__init__ up to the read of the values: a missing sheet, an
\* empty name and an unknown data_format are refused first; _tab_exists
\* takes every exception of the lookup for an absent tab; _create_tab
\* wraps what add_worksheet raises, which it does for a title in use;
\* then the values are read
ConstructTab(sheet, dr, tab_name, data_format, fault) ==
  LET there == tab_name \in DOMAIN dr.tabs
      found == there /\ fault # "worksheet"
      added == [dr EXCEPT !.tabs = [n \in DOMAIN @ \cup {tab_name} |->
                                      IF n = tab_name THEN <<>> ELSE @[n]]]
      drv == IF found THEN dr ELSE added
      upto == IF found THEN <<"worksheet">> ELSE <<"worksheet", "add_worksheet">>
  IN IF sheet = "none" \/ tab_name = "" \/ data_format \notin Formats
       THEN [result |-> "ValueError", calls |-> <<>>, drive |-> dr]
     ELSE IF ~found /\ (there \/ fault = "add_worksheet")
       THEN [result |-> "RuntimeError", calls |-> upto, drive |-> dr]
     ELSE IF fault = "values_batch_get"
       THEN [result |-> "RuntimeError", calls |-> upto \o <<"values_batch_get">>,
             drive |-> drv]
     ELSE [result |-> "ok", calls |-> upto \o <<"values_batch_get">>, drive |-> drv]

\* tab(tab_name, data_format): the spreadsheet is resolved for the
\* argument, whose exception leaves as it is, then the SmartTab is
\* constructed; tab_names is dropped only when the constructor returned
OpenTab(sp, dr, tab_name, data_format, fault) ==
  LET r == Resolve(sp, dr, fault)
      c == ConstructTab(r.spread.sheet, dr, tab_name, data_format, fault)
  IN IF r.result # "ok"
       THEN [result |-> r.result, calls |-> r.calls, spread |-> r.spread,
             drive |-> dr, opened |-> FALSE]
     ELSE IF c.result # "ok"
       THEN [result |-> c.result, calls |-> r.calls \o c.calls,
             spread |-> r.spread, drive |-> c.drive, opened |-> FALSE]
     ELSE [result |-> "ok", calls |-> r.calls \o c.calls,
           spread |-> [r.spread EXCEPT !.names = [cached |-> FALSE, value |-> {}]],
           drive |-> c.drive, opened |-> TRUE]

\* A refresh whose two deletions share one try block, tab_names first
SpreadRefreshedOneTry(sp) ==
  IF sp.names.cached
    THEN [sp EXCEPT !.sheet = "none", !.names = [cached |-> FALSE, value |-> {}],
                    !.resolved = 0]
    ELSE sp

\* refresh(): each cached property is deleted in a try block of its own
SpreadRefreshed(sp) ==
  [sp EXCEPT !.sheet = "none", !.names = [cached |-> FALSE, value |-> {}],
             !.resolved = 0]

\* The failing call was made by the operation
Reached(fault, calls) ==
  fault = "none" \/ \E i \in 1..Len(calls) : calls[i] = fault

\* The tab at the service an accessor is bound to
Bound(dr, tab_name) ==
  [grid |-> dr.tabs[tab_name], filter |-> FALSE, frozen |-> FALSE,
   bold |-> FALSE, numfmt |-> "plain"]

Sheet(fault) ==
  /\ \E r \in {Resolve(spread, drive, fault)} :
        /\ Reached(fault, r.calls)
        /\ spread' = r.spread
        /\ last' = [NoCall EXCEPT !.op = "sheet", !.result = r.result,
                                  !.calls = r.calls, !.fault = fault]
  /\ UNCHANGED <<remote, tab, steps, drive>>

CreateSheetCall(share_publicly, fault) ==
  /\ \E c \in {CreateSheet(spread, drive, share_publicly, fault)} :
        /\ Reached(fault, c.calls)
        /\ drive' = c.drive
        /\ last' = [NoCall EXCEPT !.op = "create_sheet", !.result = c.result,
                                  !.calls = c.calls, !.fault = fault]
  /\ UNCHANGED <<remote, tab, steps, spread>>

GrantAccessCall(fault) ==
  /\ \E g \in {GrantAccess(spread, drive, fault)} :
        /\ Reached(fault, g.calls)
        /\ spread' = g.spread
        /\ drive' = g.drive
        /\ last' = [NoCall EXCEPT !.op = "grant_access", !.result = g.result,
                                  !.calls = g.calls, !.fault = fault]
  /\ UNCHANGED <<remote, tab, steps>>

TabNamesCall(fault) ==
  /\ \E n \in {TabNamesOf(spread, drive, fault)} :
        /\ Reached(fault, n.calls)
        /\ spread' = n.spread
        /\ last' = [NoCall EXCEPT !.op = "tab_names", !.result = n.result,
                                  !.calls = n.calls, !.ret = n.ret,
                                  !.fault = fault]
  /\ UNCHANGED <<remote, tab, steps, drive>>

TabExistsCall(tab_name, fault) ==
  /\ \E e \in {TabExists(spread, drive, tab_name, fault)} :
        /\ Reached(fault, e.calls)
        /\ spread' = e.spread
        /\ last' = [NoCall EXCEPT !.op = "tab_exists", !.result = e.result,
                                  !.calls = e.calls, !.ret = e.ret,
                                  !.value = tab_name, !.fault = fault]
  /\ UNCHANGED <<remote, tab, steps, drive>>

TabCall(tab_name, fmt, fault) ==
  /\ \E o \in {OpenTab(spread, drive, tab_name, fmt, fault)} :
        /\ Reached(fault, o.calls)
        /\ spread' = o.spread
        /\ drive' = o.drive
        /\ remote' = IF o.opened THEN Bound(o.drive, tab_name) ELSE remote
        /\ tab' = IF o.opened THEN NewTab(o.drive.tabs[tab_name], fmt) ELSE tab
        /\ last' = [NoCall EXCEPT !.op = "tab", !.result = o.result,
                                  !.calls = o.calls, !.value = tab_name,
                                  !.data_format = fmt, !.fault = fault]
  /\ UNCHANGED steps

\* SmartTab(sheet, tab_name, data_format) by a caller that holds the
\* spreadsheet the handle resolved, or passes none
SmartTabCall(sheet, tab_name, fmt, fault) ==
  /\ sheet \in {"none", spread.sheet}
  /\ \E c \in {ConstructTab(sheet, drive, tab_name, fmt, fault)} :
        /\ Reached(fault, c.calls)
        /\ drive' = c.drive
        /\ remote' = IF c.result = "ok" THEN Bound(c.drive, tab_name) ELSE remote
        /\ tab' = IF c.result = "ok"
                    THEN NewTab(c.drive.tabs[tab_name], fmt) ELSE tab
        /\ last' = [NoCall EXCEPT !.op = "smart_tab", !.result = c.result,
                                  !.calls = c.calls, !.value = tab_name,
                                  !.data_format = fmt, !.sheet = sheet,
                                  !.fault = fault]
  /\ UNCHANGED <<steps, spread>>

RefreshSpread ==
  /\ spread' = SpreadRefreshed(spread)
  /\ last' = [NoCall EXCEPT !.op = "refresh_spread", !.result = "ok",
                            !.changed = (spread' # spread)]
  /\ UNCHANGED <<remote, tab, steps, drive>>

\* The accounts the runs start from: the identifier is the ID of a
\* spreadsheet, the title of one, or of none
InitDrives ==
  { [byKey |-> k, byName |-> n,
     tabs |-> IF k \/ n THEN [t \in {"Sheet1"} |-> g] ELSE << >>,
     shared |-> FALSE, made |-> FALSE] :
      k \in BOOLEAN, n \in BOOLEAN,
      g \in { <<>>, << <<"A", "B">>, <<"1", "ab">> >> } }

InitSpread ==
  /\ drive \in InitDrives
  /\ spread \in {NewSpread(e) : e \in BOOLEAN}
  /\ remote = [grid |-> <<>>, filter |-> FALSE, frozen |-> FALSE,
               bold |-> FALSE, numfmt |-> "plain"]
  /\ tab = NoTab
  /\ last = NoCall
  /\ steps = 0

\* The life of a SmartSpread, the service failing at any call
NextSpread ==
  \/ \E fault \in {"none", "open_by_key", "open"} : Sheet(fault)
  \/ \E p \in BOOLEAN, fault \in {"none", "create", "share"} :
        CreateSheetCall(p, fault)
  \/ \E fault \in {"none", "open_by_key", "open", "share"} : GrantAccessCall(fault)
  \/ \E fault \in {"none", "open_by_key", "open", "worksheets"} :
        TabNamesCall(fault)
  \/ \E tab_name \in TabNames,
        fault \in {"none", "open_by_key", "open", "worksheet"} :
        TabExistsCall(tab_name, fault)
  \/ \E tab_name \in TabNames, fmt \in DataFormats,
        fault \in FaultSites \ {"create", "share", "worksheets"} :
        TabCall(tab_name, fmt, fault)
  \/ \E sheet \in {"none", "key", "name"}, tab_name \in TabNames,
        fmt \in DataFormats,
        fault \in {"none", "worksheet", "add_worksheet", "values_batch_get"} :
        SmartTabCall(sheet, tab_name, fmt, fault)
  \/ RefreshSpread

SpreadSpec == InitSpread /\ [][NextSpread]_vars

-----------------------------------------------------------------------------
(* Properties of write_data *)

\* C1: after a write_data that went through (or that was itself a no-op),
\* a write_data that follows it with the data unchanged makes no remote
\* call, whatever overwrite_tab and as_table are, and changes neither
\* the accessor nor the tab: two writes in a row make one remote write
C1_NoOpWrite ==
  [][(last.op = "write" /\ last.result \in {"ok", "noop"} /\ last'.op = "write")
       => /\ last'.result = "noop"
          /\ last'.calls = <<>>
          /\ remote' = remote
          /\ tab' = tab]_vars

\* A no-op write of a table the caller assigned: its hash was stored by
\* the write before
C1_Witness ==
  /\ last.op = "write" /\ last.result = "noop"
  /\ tab.data \in CallerTables
  /\ tab.hash # NoHash

\* The calls of the last write_data that went through
Succeeded(c) ==
  IF c.result = "ok" THEN Range(c.calls)
  ELSE {c.calls[k] : k \in 1..(Len(c.calls) - 1)}

\* C2: write_data changes the stored hash only when every remote call
\* went through; when one fails it raises a RuntimeError, leaves data and
\* hash as they were, keeps the effects of the calls before the failing
\* one, and the write_data that follows makes remote calls again
C2_FailedWrite ==
  [][/\ (last'.op = "write" /\ tab'.hash # tab.hash) => last'.result = "ok"
     /\ (last'.op = "write" /\ last'.result = "RuntimeError" /\ last'.calls # <<>>)
          => /\ tab'.data = tab.data
             /\ tab'.hash = tab.hash
             /\ ~Unchanged(tab')
             /\ ("clear" \in Succeeded(last') /\ "update" \notin Succeeded(last'))
                  => remote'.grid = <<>>
             /\ "update" \in Succeeded(last')
                  => remote'.grid =
                       UpdateGrid(IF last'.overwrite_tab THEN <<>> ELSE remote.grid,
                                  DataAsList(tab.data).values)
             /\ "set_basic_filter" \in Succeeded(last') => remote'.filter
             /\ "freeze" \in Succeeded(last') => remote'.frozen
     /\ (last.op = "write" /\ last.result = "RuntimeError" /\ last.calls # <<>>
           /\ last'.op = "write")
          => last'.result # "noop" /\ last'.calls # <<>>]_vars

\* A write_data that failed at freeze_panes after the update and the
\* filter took effect
C2_Witness ==
  /\ last.op = "write" /\ last.result = "RuntimeError"
  /\ Succeeded(last) = {"clear", "update", "set_basic_filter"}
  /\ remote.filter /\ ~remote.frozen
  /\ tab.hash # CalculateDataHash(tab.data)

-----------------------------------------------------------------------------
(* Properties of update_row_by_column_pattern *)

\* The table a shape stands for: its column names and its rows
TableOf(d) ==
  IF d.kind = "list"
    THEN IF d.rows = <<>> THEN [cols |-> <<>>, rows |-> <<>>]
         ELSE [cols |-> d.rows[1], rows |-> Tail(d.rows)]
    ELSE [cols |-> d.cols, rows |-> d.rows]

\* The cell of row i under the column called name
CellOf(T, i, name) == T.rows[i][IndexOf(T.cols, name)]

\* Two cells hold the same: both are missing, or they are equal values
CellSame(a, b) == (IsNull(a) /\ IsNull(b)) \/ ValEq(a, b)

\* The update value of the column called name
UpdateOf(updates, name) == updates[IndexOf(UpdateKeys(updates), name)][2]

\* The rows of T whose match column equals the value
MatchesOf(T, column, value) ==
  IF column \in Range(T.cols)
    THEN {i \in 1..Len(T.rows) : ValEq(CellOf(T, i, column), value)}
    ELSE {}

\* An upsert with valid arguments has just been made
Upserted(c) == c.op = "upsert" /\ c.column # "" /\ c.updates # <<>>

\* C3: update_row_by_column_pattern makes no remote call and leaves the
\* tab and the stored hash as they were, and the write_data that follows
\* an upsert that changed the data makes remote calls
C3_InMemoryOnly ==
  [][/\ last'.op = "upsert"
          => remote' = remote /\ tab'.hash = tab.hash /\ last'.calls = <<>>
     /\ (last.op = "upsert" /\ last.changed /\ last'.op = "write")
          => last'.result # "noop" /\ last'.calls # <<>>]_vars

\* C4: when a row has the match column equal to the value, the upsert
\* sets the update columns of the first such row to the update values and
\* leaves every other cell, the row order and the row count as they were
C4_FirstMatchOnly ==
  [][Upserted(last') =>
       LET T == TableOf(tab.data)
           U == TableOf(tab'.data)
           keys == Range(UpdateKeys(last'.updates))
           matching == MatchesOf(T, last'.column, last'.value)
       IN matching # {} =>
            /\ last'.result = "ok"
            /\ Len(U.rows) = Len(T.rows)
            /\ Range(U.cols) = Range(T.cols) \cup keys
            /\ \A i \in 1..Len(T.rows) : \A name \in Range(U.cols) :
                 IF i = Min(matching) /\ name \in keys
                   THEN CellSame(CellOf(U, i, name), UpdateOf(last'.updates, name))
                 ELSE IF name \in Range(T.cols)
                   THEN CellSame(CellOf(U, i, name), CellOf(T, i, name))
                 ELSE IsNull(CellOf(U, i, name))]_vars

\* C5: when no row has the match column equal to the value, the upsert
\* appends one row holding the value, the update values and null
\* elsewhere, adds the columns that were not there with null in the rows
\* that were, and leaves those rows as they were
C5_AppendRow ==
  [][Upserted(last') =>
       LET T == TableOf(tab.data)
           U == TableOf(tab'.data)
           keys == Range(UpdateKeys(last'.updates))
           n == Len(T.rows)
       IN MatchesOf(T, last'.column, last'.value) = {} =>
            /\ last'.result = "ok"
            /\ Len(U.rows) = n + 1
            /\ Range(U.cols) = Range(T.cols) \cup keys \cup {last'.column}
            /\ \A i \in 1..n : \A name \in Range(U.cols) :
                 IF name \in Range(T.cols)
                   THEN CellSame(CellOf(U, i, name), CellOf(T, i, name))
                   ELSE IsNull(CellOf(U, i, name))
            /\ \A name \in Range(U.cols) :
                 IF name \in keys
                   THEN CellSame(CellOf(U, n + 1, name), UpdateOf(last'.updates, name))
                 ELSE IF name = last'.column
                   THEN CellSame(CellOf(U, n + 1, name), last'.value)
                 ELSE IsNull(CellOf(U, n + 1, name))]_vars

-----------------------------------------------------------------------------
(* Properties of read_data *)

\* The data rows of a grid, padded to the width of its header
PaddedRows(grid) ==
  [i \in 1..(Len(grid) - 1) |-> PadRow(grid[i + 1], Len(grid[1]))]

\* read_data has just returned data of the given kind
HasRead(kind) ==
  last.op = "construct" /\ tab.hash # NoHash /\ tab.data.kind = kind

\* C6: read_data makes a column a nullable integer column only if every
\* present value is a number without fractional part, a float column only
\* if every present value is a number, and otherwise keeps every present
\* value as the text it was and every missing value as null
C6_LosslessInference ==
  HasRead("df") =>
    LET cells == PaddedRows(remote.grid)
        df == tab.data
    IN \A j \in 1..Len(df.cols) :
         LET present == {i \in 1..Len(cells) : cells[i][j] # ""}
         IN /\ df.dtypes[j] = "Int64" => \A i \in present : IsIntegral(cells[i][j])
            /\ df.dtypes[j] = "float64" => \A i \in present : IsNumeric(cells[i][j])
            /\ df.dtypes[j] \in {"Int64", "float64", "object"}
            /\ df.dtypes[j] = "object" =>
                 \A i \in 1..Len(cells) :
                   IF i \in present THEN df.rows[i][j] = cells[i][j]
                   ELSE df.rows[i][j] = None_

\* C8: in the dict and list shapes read_data returns no NaN and no pd.NA,
\* and every cell that is blank in the grid is None
C8_CanonicalNull ==
  (HasRead("dict") \/ HasRead("list")) =>
    LET cells == PaddedRows(remote.grid)
        T == TableOf(tab.data)
    IN /\ Len(T.rows) = Len(cells)
       /\ \A i \in 1..Len(T.rows) : \A j \in 1..Len(T.rows[i]) :
            /\ T.rows[i][j] \notin {NaN, NA}
            /\ cells[i][j] = "" => T.rows[i][j] = None_

\* A list read from a grid with a blank cell in a column of integers,
\* which is pd.NA in the typed table
C8_Witness ==
  /\ HasRead("list")
  /\ \E i \in 1..Len(remote.grid) - 1 :
       PadRow(remote.grid[i + 1], 2) = <<"", "ab">>
  /\ NA \in UNION {Range(r) : r \in Range(ReadFrame(remote.grid).rows)}

-----------------------------------------------------------------------------
(* Round trip *)

Blank(c) == IsNull(c) \/ c = ""

NumericDtype(dtype) == dtype \in {"int64", "float64", "Int64", "Float64"}

\* The typed table read from the grid has the column names and the row
\* count of df, a numeric column for each numeric column of df and null
\* for each blank cell of df
ReadsBack(df, grid) ==
  LET rd == ReadData(grid, "DataFrame")
  IN /\ rd.err = "none"
     /\ rd.data.cols = df.cols
     /\ Len(rd.data.rows) = Len(df.rows)
     /\ \A j \in 1..Len(df.cols) :
          NumericDtype(df.dtypes[j]) => rd.data.dtypes[j] \in {"Int64", "float64"}
     /\ \A i \in 1..Len(df.rows) : \A j \in 1..Len(df.cols) :
          Blank(df.rows[i][j]) => IsNull(rd.data.rows[i][j])

\* C7: a write_data of a typed table with a non-empty header, the remote
\* not failing, goes through, and the tab then reads back in the typed
\* shape with the same column names in order, the same number of rows,
\* numeric columns numeric and blank cells null, for either value of
\* overwrite_tab and whatever the tab held before
C7_RoundTrip ==
  [][(/\ last'.op = "write"
      /\ tab.data.kind = "df" /\ tab.data.cols # <<>>
      /\ \/ last'.result = "ok"
         \/ last'.result = "RuntimeError" /\ last'.calls = <<>>)
       => /\ last'.result = "ok"
          /\ ReadsBack(tab.data, remote'.grid)]_vars

-----------------------------------------------------------------------------
(* Properties of filter_rows_by_column *)

\* Two lists of rows hold the same cells
SameRows(a, b) ==
  /\ Len(a) = Len(b)
  /\ \A i \in 1..Len(a) :
       /\ Len(a[i]) = Len(b[i])
       /\ \A j \in 1..Len(a[i]) : CellSame(a[i][j], b[i][j])

\* The rows of T whose value under the column is present and contains
\* the pattern as a literal substring
LiteralMatches(T, column, pattern) ==
  SelectRows(T.rows,
             [i \in 1..Len(T.rows) |->
                /\ ~IsNull(CellOf(T, i, column))
                /\ IsSubstring(pattern, CellOf(T, i, column))])

\* C9: for a non-empty column name of the data and a non-empty pattern,
\* filter_rows_by_column raises nothing and returns, in order, the rows
\* whose value in the column contains the pattern as a literal substring,
\* never a row whose value is missing
C9_LiteralFilter ==
  (/\ last.op = "filter"
   /\ last.column # "" /\ last.value # ""
   /\ last.column \in Range(TableOf(tab.data).cols))
    => /\ last.result = "ok"
       /\ SameRows(last.ret, LiteralMatches(TableOf(tab.data), last.column, last.value))

\* C10: filter_rows_by_column, whether it returns rows or raises, leaves
\* the data, the stored hash and the tab as they were and makes no remote
\* call, so the write_data that follows is a no-op exactly if it was one
\* before
C10_FilterReadOnly ==
  [][last'.op = "filter"
       => /\ tab'.data = tab.data
          /\ tab'.hash = tab.hash
          /\ remote' = remote
          /\ last'.calls = <<>>
          /\ Unchanged(tab') <=> Unchanged(tab)]_vars

\* A filter that returned some rows of the data and left others out,
\* made after an upsert that the tab does not hold yet
C10_Witness ==
  /\ last.op = "filter" /\ last.result = "ok"
  /\ last.ret # <<>> /\ Len(last.ret) < Len(tab.data.rows)
  /\ tab.hash # NoHash /\ ~Unchanged(tab)

-----------------------------------------------------------------------------
(* The three shapes as views of one table *)

\* Two tables have the same column names and hold the same cells
SameTable(T, U) == T.cols = U.cols /\ SameRows(T.rows, U.rows)

\* C11: on data read from the same grid, filter_rows_by_column and
\* update_row_by_column_pattern give in the dict and list shapes the
\* outcome and the table they give in the typed-table shape; row 0 of a
\* list is its header, so its column names are found
C11_ShapeEquivalence ==
  [][(last.op = "construct" /\ tab.hash # NoHash) =>
       LET df == ReadData(remote.grid, "DataFrame").data
       IN /\ Upserted(last') =>
               LET u == UpdateRow(df, "DataFrame", last'.column, last'.value,
                                  last'.updates)
               IN /\ last'.result = u.result
                  /\ SameTable(TableOf(tab'.data), TableOf(u.data))
          /\ (last'.op = "filter" /\ last'.column # "" /\ last'.value # "") =>
               LET f == FilterRows(df, last'.column, last'.value)
               IN /\ last'.result = f.result
                  /\ SameRows(last'.ret, f.rows)]_vars

-----------------------------------------------------------------------------
(* The grid write_data sends, and the fingerprint *)

\* The data has a header: its grid is neither empty nor headerless
HasHeader(d) == TableOf(d).cols # <<>>

\* C12: a write_data that gets past its guard with data that has a header
\* converts the data to a grid in which no cell is null or missing: each
\* such cell of the data is the empty string there, in every shape
C12_NullsSentEmpty ==
  [][(last'.op = "write" /\ ~Unchanged(tab) /\ HasHeader(tab.data)) =>
       LET sent == DataAsList(tab.data)
           T == TableOf(tab.data)
       IN /\ sent.err = "none"
          /\ Len(sent.values) = Len(T.rows) + 1
          /\ \A i \in 1..Len(T.rows) : \A j \in 1..Len(T.rows[i]) :
               /\ ~IsNull(sent.values[i + 1][j])
               /\ IsNull(T.rows[i][j]) => sent.values[i + 1][j] = ""]_vars

\* C13: a write_data that gets past its guard with data that has no
\* header (an empty typed table, an empty list, a list whose first row is
\* empty) raises ValueError, makes no remote call and leaves the stored
\* hash and the tab as they were
C13_EmptyWrite ==
  [][(last'.op = "write" /\ ~Unchanged(tab) /\ ~HasHeader(tab.data)) =>
       /\ last'.result = "ValueError"
       /\ last'.calls = <<>>
       /\ tab'.hash = tab.hash
       /\ remote' = remote]_vars

\* Two fingerprints are the same bytes
SameHash(h, g) == h.kind = g.kind /\ h.rows = g.rows

\* C16: among data with a header, two values have the same fingerprint
\* exactly if they have the same column names and the same cells, every
\* missing value counting as the same, whatever their shapes; so with the
\* fingerprint of one stored, a write of the other is a no-op only if
\* they are the same table
C16_ContentFingerprint ==
  (last.op = "assign" /\ HasHeader(tab.data)) =>
    \A d \in DataValues :
      HasHeader(d) =>
        (SameTable(TableOf(d), TableOf(tab.data))
           <=> SameHash(CalculateDataHash(d), CalculateDataHash(tab.data)))

-----------------------------------------------------------------------------
(* Construction and column names *)

\* The grid is empty or its first row is
Headerless(grid) == grid = <<>> \/ grid[1] = <<>>

\* C14: a constructor whose read went through raises nothing; it leaves an
\* empty table and no stored hash on a grid that is empty or has an
\* empty first row, and on no other grid; a read that fails at the
\* service leaves the constructor as a RuntimeError; and with no stored
\* hash the guard of write_data does not hold
C14_EmptyTabAbsorbed ==
  last.op = "construct" =>
    /\ last.result = "RuntimeError" <=> tab.fmt = "none"
    /\ (last.result = "ok" /\ Headerless(remote.grid))
         => tab.data = EmptyFrame /\ tab.hash = NoHash
    /\ (last.result = "ok" /\ tab.hash = NoHash) => Headerless(remote.grid)
    /\ tab.hash = NoHash => ~Unchanged(tab)

\* C19: read_data on a grid with a header returns column names that are
\* non-empty and pairwise distinct, the name at the (1-based) position i
\* of a blank header cell being Column_i
C19_DistinctColumnNames ==
  (last.op = "construct" /\ last.result = "ok" /\ tab.fmt = "DataFrame"
   /\ ~Headerless(remote.grid))
    => LET headers == remote.grid[1]
       IN /\ tab.hash # NoHash
          /\ Len(tab.data.cols) = Len(headers)
          /\ \A i \in 1..Len(headers) :
               /\ tab.data.cols[i] # ""
               /\ headers[i] = "" => tab.data.cols[i] = ColumnPlaceholder(i)
          /\ ~HasDuplicates(tab.data.cols)

-----------------------------------------------------------------------------
(* refresh *)

-----------------------------------------------------------------------------
(* Properties of SmartSpread *)

\* The lookups of the spreadsheet among the remote calls of an operation
Lookups(calls) ==
  {i \in 1..Len(calls) : calls[i] \in {"open_by_key", "open"}}

\* C17: SmartSpread.refresh() raises nothing, makes no remote call and
\* leaves neither the spreadsheet nor the tab-name list cached, whatever
\* was cached before; the access to sheet or tab_names that follows it
\* asks the service again; and while a spreadsheet is cached no operation
\* looks it up again, so that between two refreshes at most one
\* resolution succeeds
C17_SpreadRefresh ==
  [][/\ last'.op = "refresh_spread" =>
          /\ last'.result = "ok" /\ last'.calls = <<>>
          /\ spread'.sheet = "none" /\ ~spread'.names.cached
          /\ drive' = drive
     /\ (last.op = "refresh_spread" /\ last'.op \in {"sheet", "tab_names"}) =>
          /\ last'.calls # <<>> /\ last'.calls[1] = "open_by_key"
     /\ spread.sheet # "none" => Lookups(last'.calls) = {}
     /\ spread'.resolved <= 1]_vars

\* The tab names asked from the service again, spreadsheet lookup
\* included, after a tab was made through the cached spreadsheet: a
\* refresh dropped it in between
C17_Witness ==
  /\ last.op = "tab_names" /\ last.result = "ok" /\ "Data" \in last.ret
  /\ last.calls = <<"open_by_key", "worksheets">>
  /\ spread.resolved = 1

\* C18: with nothing cached, the spreadsheet is looked up by ID first and
\* by name exactly when the ID lookup reported not-found; the access
\* fails with ValueError exactly when both lookups reported not-found; it
\* caches what the first lookup that found the spreadsheet returned and
\* caches nothing when it fails, so that the access that follows a
\* successful _create_sheet(), the service answering, resolves the
\* spreadsheet
C18_Resolution ==
  [][/\ (last'.op = "sheet" /\ spread.sheet = "none") =>
          /\ last'.calls \in {<<"open_by_key">>, <<"open_by_key", "open">>}
          /\ Len(last'.calls) = 2 <=>
                (~drive.byKey /\ last'.fault # "open_by_key")
          /\ last'.result = "ValueError" <=>
                (~drive.byKey /\ ~drive.byName /\ last'.fault = "none")
          /\ last'.result # "ok" => spread'.sheet = "none"
          /\ last'.result = "ok" =>
                spread'.sheet = IF drive.byKey THEN "key" ELSE "name"
     /\ (/\ last.op = "create_sheet" /\ last.result = "ok"
         /\ spread.sheet = "none"
         /\ last'.op = "sheet" /\ last'.fault = "none") =>
          /\ last'.result = "ok" /\ spread'.sheet # "none"]_vars

\* The spreadsheet that _create_sheet made, resolved by its title after
\* the ID lookup reported not-found
C18_Witness ==
  /\ last.op = "sheet" /\ last.result = "ok"
  /\ last.calls = <<"open_by_key", "open">>
  /\ spread.sheet = "name" /\ drive.made

\* C20: whenever a remote call of an operation of the SmartSpread failed
\* for a reason other than not-found (the lookups of the spreadsheet, its
\* creation, a share, the listing of the tabs, the lookup or the creation
\* of a tab, the read of its values), the operation ended with a
\* RuntimeError: the failure is neither passed on unwrapped nor swallowed
C20_FailuresWrapped ==
  last.fault # "none" => last.result = "RuntimeError"

-----------------------------------------------------------------------------
(* Properties of the construction of a SmartTab *)

\* The arguments of a construction that the constructor refuses
InvalidArgs(c) ==
  \/ c.value = ""
  \/ c.data_format \notin Formats
  \/ c.op = "smart_tab" /\ c.sheet = "none"

\* C21: a SmartTab constructed with no sheet, with an empty tab name or
\* with a data_format other than 'DataFrame', 'list', 'dict' ends in
\* ValueError without a remote call; through tab() the only calls are
\* the lookups of the spreadsheet that the handle makes for the argument
\* (its own failure is then what the caller gets); no tab is looked up,
\* created or read, and the handle's tab_names cache is as it was
C21_InvalidArguments ==
  [][/\ (last'.op = "smart_tab" /\ InvalidArgs(last')) =>
          /\ last'.result = "ValueError" /\ last'.calls = <<>>
          /\ drive' = drive /\ spread' = spread
          /\ tab' = tab /\ remote' = remote
     /\ (last'.op = "tab" /\ InvalidArgs(last')) =>
          /\ Lookups(last'.calls) = 1..Len(last'.calls)
          /\ spread'.sheet # "none" => last'.result = "ValueError"
          /\ spread'.sheet = "none" => last'.result \in {"ValueError", "APIError"}
          /\ drive' = drive /\ spread'.names = spread.names
          /\ tab' = tab /\ remote' = remote]_vars

\* tab() refused an unknown data_format for a tab that is absent, and
\* the cached tab names are still there
C21_Witness ==
  /\ last.op = "tab" /\ last.result = "ValueError" /\ last.calls = <<>>
  /\ last.value = "Data" /\ last.data_format = "csv"
  /\ "Data" \notin DOMAIN drive.tabs
  /\ spread.names.cached

-----------------------------------------------------------------------------
(* Properties of tab_exists *)

\* What tab_exists answers and what it leaves alone: the empty name ends
\* in ValueError without a call; otherwise the answer is whether the tab
\* is there when the spreadsheet resolved and no call failed, and a
\* RuntimeError in every other case; no tab is made, no accessor changes
\* and the tab_names cache is as it was
TabExistsAnswers ==
  /\ drive' = drive /\ tab' = tab /\ remote' = remote
  /\ spread'.names = spread.names
  /\ last'.value = "" =>
       /\ last'.result = "ValueError" /\ last'.calls = <<>> /\ spread' = spread
  /\ last'.value # "" =>
       /\ last'.result = "ok" <=> (spread'.sheet # "none" /\ last'.fault = "none")
       /\ last'.result = "ok" =>
            /\ last'.ret = (last'.value \in DOMAIN drive.tabs)
            /\ last'.calls[Len(last'.calls)] = "worksheet"
       /\ last'.result # "ok" => last'.result = "RuntimeError"

\* C23 as stated: tab_exists(name) ends in ValueError without a remote
\* call when name is empty; otherwise it returns true when the lookup
\* finds the tab, false when it reports not-found and raises a wrapped
\* error for any other failure; it changes no cached state and creates
\* no tab
C23_NoCachedStateChanged ==
  [][last'.op = "tab_exists" => (TabExistsAnswers /\ spread' = spread)]_vars

\* C23, amended: as stated, except that a handle which has not resolved
\* its spreadsheet yet resolves and caches it for the lookup; what was
\* cached before the call is cached after it, unchanged
C23_TabExists ==
  [][last'.op = "tab_exists" =>
       /\ TabExistsAnswers
       /\ spread.sheet # "none" => spread' = spread
       /\ spread.sheet = "none" =>
            spread' \in {spread, Resolve(spread, drive, last'.fault).spread}]_vars

\* tab_exists said no for a tab that is absent, the tab names cached
C23_Witness ==
  /\ last.op = "tab_exists" /\ last.result = "ok" /\ last.ret = FALSE
  /\ last.value = "Data" /\ "Data" \notin DOMAIN drive.tabs
  /\ spread.names.cached

-----------------------------------------------------------------------------
(* Properties of the tab_names cache *)

\* C26: whenever tab() made a tab at the service, the handle holds no
\* cached tab-name list after the call, whether the construction
\* returned or failed after the tab was made: a cached list never lacks
\* a tab made through the handle
C26_CacheInvalidated ==
  [][(last'.op = "tab" /\ DOMAIN drive'.tabs # DOMAIN drive.tabs)
       => ~spread'.names.cached]_vars

\* The positions of a remote call among the calls of an operation
Positions(calls, name) ==
  {i \in 1..Len(calls) : calls[i] = name}

\* C27: a construction that got as far as the tab lookup issues
\* add_worksheet exactly when the named tab is absent at the service,
\* at most once and before the values are read; for a tab that is there
\* it issues none, also when the lookup failed for another reason than
\* not-found
C27_CreatesAbsentTab ==
  [][(last'.op \in {"tab", "smart_tab"} /\ Positions(last'.calls, "worksheet") # {})
       => /\ Positions(last'.calls, "add_worksheet") # {}
               <=> last'.value \notin DOMAIN drive.tabs
          /\ Cardinality(Positions(last'.calls, "add_worksheet")) <= 1
          /\ \A i \in Positions(last'.calls, "add_worksheet"),
                j \in Positions(last'.calls, "values_batch_get") : i < j]_vars

-----------------------------------------------------------------------------
(* Properties of the remote write *)

\* The content of a cell of a grid, blank beyond what the grid holds
GridCell(grid, i, j) ==
  IF i <= Len(grid) /\ j <= Len(grid[i]) THEN grid[i][j] ELSE ""

\* The grids a and b hold the same outside the rectangle of the first
\* rows rows and cols columns
SameOutside(a, b, rows, cols) ==
  \A i \in 1..Max(Len(a), Len(b)) :
    \A j \in 1..Max(IF i <= Len(a) THEN Len(a[i]) ELSE 0,
                     IF i <= Len(b) THEN Len(b[i]) ELSE 0) :
      (i > rows \/ j > cols) => GridCell(a, i, j) = GridCell(b, i, j)

\* C24: a write_data without overwrite_tab that sends a grid the service
\* can take (a header, no NaN, no row longer than the header), the
\* service not failing, goes through for every size of the grid, wider
\* than 26 columns included, clears nothing, and leaves every cell of the
\* tab outside the rectangle of the grid's rows and header columns as it
\* was
C24_ExactRange ==
  [][(/\ last'.op = "write" /\ ~last'.overwrite_tab /\ last'.fault = "none"
      /\ last'.result # "noop"
      /\ DataAsList(tab.data).err = "none"
      /\ HasHeader(tab.data)
      /\ Serializable(DataAsList(tab.data).values)
      /\ \A i \in 1..Len(DataAsList(tab.data).values) :
            Len(DataAsList(tab.data).values[i])
              <= Len(DataAsList(tab.data).values[1]))
       => /\ last'.result = "ok"
          /\ Positions(last'.calls, "clear") = {}
          /\ Positions(last'.calls, "update") # {}
          /\ SameOutside(remote'.grid, remote.grid,
                         Len(DataAsList(tab.data).values),
                         Len(DataAsList(tab.data).values[1]))]_vars

\* C25: a write_data with overwrite_tab that gets to its remote calls
\* issues the clear right before the update and no update without it;
\* when the update fails after the clear the tab is empty and the
\* accessor, its stored hash included, is as before; the write_data with
\* overwrite_tab that follows, the data being the same, is no no-op and
\* starts with the clear again
C25_ClearThenWrite ==
  [][/\ (last'.op = "write" /\ last'.overwrite_tab) =>
          /\ \A j \in Positions(last'.calls, "update") :
                j > 1 /\ last'.calls[j - 1] = "clear"
          /\ last'.result = "ok" => Positions(last'.calls, "update") # {}
          /\ (/\ last'.result = "RuntimeError"
              /\ Positions(last'.calls, "update") # {}
              /\ last'.calls[Len(last'.calls)] = "update") =>
                /\ remote'.grid = <<>>
                /\ tab'.hash = tab.hash /\ tab'.data = tab.data
     /\ (/\ last.op = "write" /\ last.overwrite_tab
         /\ last.result = "RuntimeError"
         /\ Positions(last.calls, "update") # {}
         /\ last.calls[Len(last.calls)] = "update"
         /\ last'.op = "write" /\ last'.overwrite_tab) =>
          /\ last'.result # "noop"
          /\ last'.calls # <<>> /\ last'.calls[1] = "clear"
          /\ last'.fault = "none" => last'.result = last.result
                                       \/ last'.result = "ok"]_vars

\* The update failed after the clear of a tab that held rows: the tab is
\* empty and the accessor still holds the hash of what it had read
C25_Witness ==
  /\ last.op = "write" /\ last.overwrite_tab /\ last.result = "RuntimeError"
  /\ last.calls = <<"clear", "update">>
  /\ remote.grid = <<>>
  /\ tab.hash # NoHash /\ ~Unchanged(tab)

-----------------------------------------------------------------------------
(* Two accessors of one tab *)

\* The accessor holds the hash of the data it holds
HoldsOwnHash(t) ==
  t.hash # NoHash /\ SameHash(t.hash, CalculateDataHash(t.data))

\* C28: whether write_data skips the remote write is decided by the
\* accessor's data and stored hash alone: holding the hash of its data
\* it makes no remote call, also right after another accessor changed
\* the tab, whose content then stays (the last writer wins) while this
\* accessor keeps its data; otherwise it is no no-op; only refresh()
\* brings the accessor to what the tab holds
C28_LocalFingerprint ==
  [][/\ last'.op = "write" =>
          /\ last'.result = "noop" <=> HoldsOwnHash(tab)
          /\ HoldsOwnHash(tab) =>
                /\ last'.calls = <<>> /\ remote' = remote /\ tab' = tab
     /\ (/\ last.op = "other_write" /\ last.changed
         /\ last'.op = "write" /\ HoldsOwnHash(tab)) =>
          /\ last'.result = "noop" /\ last'.calls = <<>>
          /\ remote' = remote /\ tab'.data = tab.data
     /\ (last'.op = "refresh" /\ last'.result = "ok") =>
          /\ tab'.data = ReadData(remote.grid, tab.fmt).data
          /\ HoldsOwnHash(tab')]_vars

\* A no-op write of the table this accessor was given and wrote, while
\* the tab holds the header the other accessor wrote
C28_Witness ==
  /\ last.op = "write" /\ last.result = "noop"
  /\ tab.data \in CallerTables
  /\ remote.grid # <<>> /\ remote.grid[1][1] = "Z"

\* C29: when an accessor that holds a typed table has written it with
\* overwrite_tab and refreshes right after, nobody else having touched
\* the tab, the refresh succeeds, the stored hash is the one the write
\* left and the data is a typed table still
C29_WriteRefreshFingerprint ==
  [][(/\ last.op = "write" /\ last.result = "ok" /\ last.overwrite_tab
      /\ tab.data.kind = "df"
      /\ last'.op = "refresh")
       => /\ last'.result = "ok"
          /\ tab'.data.kind = "df"
          /\ SameHash(tab'.hash, tab.hash)]_vars

-----------------------------------------------------------------------------
(* Missing values in the data of a list or dict accessor *)

\* C30: the data of an accessor of data_format 'dict' or 'list' holds
\* neither NaN nor pd.NA, whatever constructions, refreshes and upserts
\* came before: every missing cell is None
C30_NoSentinelInMemory ==
  tab.fmt \in {"dict", "list"} =>
    \A i \in 1..Len(tab.data.rows) :
      \A j \in 1..Len(tab.data.rows[i]) : tab.data.rows[i][j] \notin {NaN, NA}

-----------------------------------------------------------------------------
(* Properties of keep_number_formatting *)

\* C22: the typed table read with keep_number_formatting has no integer
\* or float column, and each of its cells is the text the tab shows for
\* it, a blank cell being null
C22_FormattedText ==
  (/\ last.op = "construct_formatted" /\ last.result = "ok"
   /\ tab.hash # NoHash /\ tab.data.kind = "df") =>
    /\ \A j \in 1..Len(tab.data.cols) : ~NumericDtype(tab.data.dtypes[j])
    /\ \A i \in 1..Len(tab.data.rows) :
         \A j \in 1..Len(tab.data.cols) :
           tab.data.rows[i][j] =
             IF GridCell(remote.grid, i + 1, j) = "" THEN None_
             ELSE Formatted(GridCell(remote.grid, i + 1, j), remote.numfmt)

-----------------------------------------------------------------------------
(* The representation of the data in memory *)

\* C31: after a construction, a refresh or an update_row_by_column_pattern
\* call the data of an accessor has the representation its data_format
\* selects: a typed table for 'DataFrame', a list of dicts for 'dict', a
\* list of lists for 'list', also when the tab was empty or headerless at
\* construction
C31_SelectedRepresentation ==
  (last.op \in {"construct", "refresh", "upsert"} /\ tab.fmt # "none")
    => FormatOf(tab.data) = tab.fmt

=============================================================================
